---- MODULE Spec2Model ----
(***************************************************************************)
(* Model of xf-scraper.js: the promise-driven traversal of one XenForo     *)
(* forum (XFForum), its threads (XFThread) and their posts (XFPost).       *)
(*                                                                         *)
(* One action is one turn of the JavaScript event loop: the completion of  *)
(* an I/O operation (a needle GET or a sqlite3 statement) together with    *)
(* every promise reaction it triggers, up to the next I/O being issued.    *)
(***************************************************************************)
EXTENDS Integers, Sequences, FiniteSets, TLC

\* ---- bounds of the model ------------------------------------------------
MaxPage    == 3   \* pages a forum or a thread can have
MaxThreads == 2   \* thread entries on one forum page
MaxPosts   == 2   \* messages on one thread page

\* ---- values -------------------------------------------------------------
Null      == 0    \* this.page === null : no further page
Undefined == -1   \* $('.PageNav').data('last') === undefined

Forum     == <<0, 0>>                          \* the archiver (XFForum)
ThreadIds == (1..MaxPage) \X (1..MaxThreads)   \* <<forum page, entry index>>
Branches  == {Forum} \cup ThreadIds

LastVals  == {Undefined} \cup (1..MaxPage)

VARIABLES
  boot,         \* the two CREATE TABLE statements: "pending" | "ok" | "failed"
  top,          \* the bootstrap promise chain: "pending" | "resolved" | "rejected"
  topReason,    \* rejection reason that reached the top-level chain
  reported,     \* the statistics line was printed
  forumCount, threadCount, postCount,   \* module-level counters
  br,           \* one record per XFPage object (forum and threads)
  db,           \* statements handed to sqlite3: <<table, class>> -> count
  ioFail,       \* history: some fetch, extraction or store reported a failure
  fnIn, fnOut   \* argument and result of a conversion checked on its own

vars == <<boot, top, topReason, reported, forumCount, threadCount, postCount,
          br, db, ioFail, fnIn, fnOut>>

fnVars == <<fnIn, fnOut>>

\* ---- prototype chains (util.inherits) -------------------------------------
\* Methods defined directly on each prototype.  Line 314 assigns the thread
\* insert to XFPost.prototype, so XFThread.prototype defines no _persistData
\* and the post's own insert (line 183) is overwritten.
OwnMethods(cls) ==
  CASE cls = "XFPage"   -> {"load", "scrape", "archive", "_archiveNextPage",
                            "_archiveItem", "_onLoad"}
    [] cls = "XFPost"   -> {"archive", "_persistData"}
    [] cls = "XFThread" -> {"archive", "scrape"}
    [] cls = "XFForum"  -> {"scrape"}

Super(cls) == IF cls \in {"XFThread", "XFForum"} THEN "XFPage" ELSE "Object"

\* Property lookup through the prototype chain.
Resolves(cls, m) ==
  \/ m \in OwnMethods(cls)
  \/ Super(cls) # "Object" /\ m \in OwnMethods(Super(cls))

\* The table XFPost.prototype._persistData inserts into: the definition at
\* line 314 replaces the one at line 183.
PostPersistTable == "threads"

\* XFThread#archive evaluates this._persistData.bind(this) after the base
\* archive has issued the load; an unresolved lookup makes it throw.
ThreadArchiveThrows == ~Resolves("XFThread", "_persistData")

\* ---- pure helpers ---------------------------------------------------------
\* Variant: the `last === undefined` test is missing.
NextCursorNoUndefined(page, last) ==
  IF page = last THEN Null ELSE page + 1

\* Variant: the cursor is not incremented.
NextCursorStuck(page, last) ==
  IF last = Undefined \/ page = last THEN Null ELSE page

\* lines 301-303 and 379-381
NextCursor(page, last) ==
  IF last = Undefined \/ page = last THEN Null ELSE page + 1

\* Variant: fulfilled as soon as one mapper result is (a race, not a map).
MapResolvedAny(items) ==
  items = <<>> \/ \E i \in DOMAIN items : items[i] = "ok"

\* Variant: only the promise of the last item is waited for.
MapResolvedLast(items) ==
  items = <<>> \/ items[Len(items)] = "ok"

\* BPromise.map(items, mapper): fulfilled when every mapper result is.
MapResolved(items) == \A i \in DOMAIN items : items[i] = "ok"

\* BPromise.map rejects as soon as one mapper throws or its promise rejects.
MapRejected(items) == \E i \in DOMAIN items : items[i] \in {"fail", "threw"}

\* lines 394-395: the configured site and forum
BaseUrl   == "https://forums.station.sony.com/everquestnext/"
ForumPath == "index.php?forums/eqn-forum-archive-temporary.12/"

\* href and text of the entry a thread was discovered from (line 362-365)
ThreadPath(t)  == "index.php?threads/t" \o ToString(t[1]) \o "-"
                    \o ToString(t[2]) \o "/"
ThreadTitle(t) == "Thread " \o ToString(t[1]) \o "." \o ToString(t[2])

\* Variant: the page slug is appended on page 1 as well.
LoadUrlAlwaysSlug(r) == r.url \o "page-" \o ToString(r.page)

\* XFPage#load, lines 56-61: the URL that is requested.
LoadUrl(r) ==
  IF r.page > 1 THEN r.url \o "page-" \o ToString(r.page) ELSE r.url

\* XFPage#archive -> XFPage#load: a GET for the current page is issued.
XFPageArchive(r) ==
  [r EXCEPT !.st = "loading", !.fetched = Append(@, r.page),
            !.urls = Append(@, LoadUrl(r))]

\* XFPage#_archiveNextPage.  For a thread this.archive() is XFThread#archive:
\* the load is issued, then the TypeError rejects only the promise of the
\* caller, which nobody observes; the chain hanging off the load goes on.
ArchiveNextPage(r) ==
  IF r.page = Null THEN [r EXCEPT !.st = "done"] ELSE XFPageArchive(r)

\* What the PageNav indicators read so far have in common: none read yet
\* (n = 0), all equal to v (n = 1), or differing (n = 2).
SeeLast(h, last) ==
  IF h.n = 0 THEN [n |-> 1, v |-> last]
  ELSE IF h.n = 1 /\ h.v = last THEN h
  ELSE [n |-> 2]

\* The XFPage constructor (lines 32-38) and the traversal state of a page
\* object: url = baseUrl + path, page = options.page || 1.
NewPage(path, title, start) ==
  [st |-> "new", page |-> start, fetched |-> <<>>, docPage |-> Null,
   docLast |-> Undefined, items |-> <<>>, order |-> <<>>, reason |-> "none",
   url |-> BaseUrl \o path, title |-> title, urls |-> <<>>, seen |-> [n |-> 0],
   posts |-> <<>>]

NoPage == [NewPage("", "", 1) EXCEPT !.st = "none"]

\* Reading a property of an object: undefined when it was never assigned.
Get(obj, f) == IF f \in DOMAIN obj THEN obj[f] ELSE Undefined

\* The XFPost constructor (lines 143-156): options.number is not copied and
\* the permalink is stored as `link`, not `url`.
XFPost(options) ==
  [title |-> options.title, description |-> options.description,
   date |-> options.date, link |-> options.url, guid |-> options.guid,
   author |-> options.author, likes |-> options.likes]

\* The parameters XFPost#_persistData binds (lines 316-321, the definition
\* in force).
PersistParams(post) ==
  [table |-> PostPersistTable, title |-> Get(post, "title"),
   url |-> Get(post, "url")]

\* The post number label of message i on page p: its position in the thread.
PostNumber(p, i) == (p - 1) * MaxPosts + i

\* The options XFThread#scrape passes to `new XFPost` (lines 287-297) for
\* message i of page p.  'datePermalink' selects nothing, so the permalink
\* is undefined when it is appended to baseUrl.
PostOptions(r, p, i) ==
  [title |-> r.title, url |-> r.url, guid |-> BaseUrl \o "undefined",
   author |-> "author", date |-> "date", description |-> "content",
   likes |-> 0, number |-> PostNumber(p, i)]

\* A document may announce a further page only below the bound.
DocAllowed(page, last) == NextCursor(page, last) = Null \/ page < MaxPage

\* ---- initial state: after `new XFForum(...)` and BPromise.all([...]) -----
\* `start` is options.page of the archiver.
Boot(start) ==
  /\ boot = "pending"
  /\ top = "pending"
  /\ topReason = "none"
  /\ reported = FALSE
  /\ forumCount = 1
  /\ threadCount = 0
  /\ postCount = 0
  /\ br = [b \in Branches |->
             IF b = Forum THEN NewPage(ForumPath, "", start) ELSE NoPage]
  /\ db = [k \in {"threads", "posts"} \X {"XFPost", "XFThread"} |-> 0]
  /\ ioFail = FALSE

\* The archiver as configured at lines 393-397: no options.page, so page 1.
Init ==
  /\ Boot(1)
  /\ fnIn = [kind |-> "none"]
  /\ fnOut = [kind |-> "none"]

\* The archiver configured with a start page (options.page, line 38).
InitStart ==
  /\ \E start \in 1..MaxPage : Boot(start)
  /\ fnIn = [kind |-> "none"]
  /\ fnOut = [kind |-> "none"]

\* Variant: the statistics are not printed on success.
TopSettlesSilent(f) ==
  IF f.st = "done"
    THEN /\ top' = "resolved" /\ reported' = reported
         /\ topReason' = topReason
    ELSE IF f.st = "failed"
      THEN /\ top' = "rejected" /\ topReason' = f.reason
           /\ reported' = reported
      ELSE UNCHANGED <<top, reported, topReason>>

\* Variant: the statistics are printed however the chain settles.
TopSettlesAlways(f) ==
  IF f.st = "done"
    THEN /\ top' = "resolved" /\ reported' = TRUE /\ topReason' = topReason
    ELSE IF f.st = "failed"
      THEN /\ top' = "rejected" /\ topReason' = f.reason
           /\ reported' = TRUE
      ELSE UNCHANGED <<top, reported, topReason>>

\* The forum chain settled: `.then(archiver.archive...)` then the statistics.
TopSettles(f) ==
  IF f.st = "done"
    THEN /\ top' = "resolved" /\ reported' = TRUE /\ topReason' = topReason
    ELSE IF f.st = "failed"
      THEN /\ top' = "rejected" /\ topReason' = f.reason
           /\ reported' = reported
      ELSE UNCHANGED <<top, reported, topReason>>

\* ---- bootstrap (lines 401-417) -------------------------------------------
TablesCreated ==
  /\ boot = "pending"
  /\ boot' = "ok"
  /\ br' = [br EXCEPT ![Forum] = XFPageArchive(@)]
  /\ UNCHANGED <<top, topReason, reported, forumCount, threadCount,
                 postCount, db, ioFail, fnIn, fnOut>>

TablesFailed ==
  /\ boot = "pending"
  /\ boot' = "failed"
  /\ top' = "rejected"
  /\ topReason' = "PersistError"
  /\ ioFail' = TRUE
  /\ UNCHANGED <<reported, forumCount, threadCount, postCount, br, db,
                 fnIn, fnOut>>

\* ---- forum page loaded: _onLoad -> XFForum#scrape -> _archiveNextPage ----
\* n thread entries, `last` the PageNav indicator.
ForumLoaded(n, last) ==
  LET f  == br[Forum]
      p  == f.page
      \* BPromise.map calls the mapper on the entries in order and stops at
      \* the first one that throws.
      results == [i \in 1..n |->
                    IF ThreadArchiveThrows
                      THEN (IF i = 1 THEN "threw" ELSE "skipped")
                      ELSE "inflight"]
      f1 == [f EXCEPT !.docPage = p, !.docLast = last,
                      !.seen = SeeLast(@, last),
                      !.page = NextCursor(p, last),
                      !.items = results, !.order = <<>>, !.st = "items"]
      f2 == IF MapRejected(results)
              THEN [f1 EXCEPT !.st = "failed", !.reason = "TypeError"]
              ELSE IF MapResolved(results) THEN ArchiveNextPage(f1) ELSE f1
  IN /\ f.st = "loading"
     /\ DocAllowed(p, last)
     /\ threadCount' = threadCount + n
     /\ br' = [b \in Branches |->
                 IF b = Forum THEN f2
                 ELSE IF b[1] = p /\ b[2] <= n
                   THEN (IF results[b[2]] = "skipped"
                           THEN NewPage(ThreadPath(b), ThreadTitle(b), 1)
                           ELSE XFPageArchive(
                                  NewPage(ThreadPath(b), ThreadTitle(b), 1)))
                   ELSE br[b]]
     /\ TopSettles(f2)
     /\ UNCHANGED <<boot, forumCount, postCount, db, ioFail, fnIn, fnOut>>

\* Variant: the failure is reported and the page is requested again.
ForumLoadFailedRetry ==
  /\ br[Forum].st = "loading"
  /\ br' = [br EXCEPT ![Forum] = XFPageArchive(@)]
  /\ ioFail' = TRUE
  /\ top' = "rejected"
  /\ topReason' = "FetchError"
  /\ UNCHANGED <<boot, reported, forumCount, threadCount, postCount, db,
                 fnIn, fnOut>>

\* needle.getAsync rejects for the forum page.
ForumLoadFailed ==
  LET f2 == [br[Forum] EXCEPT !.st = "failed", !.reason = "FetchError"]
  IN /\ br[Forum].st = "loading"
     /\ br' = [br EXCEPT ![Forum] = f2]
     /\ ioFail' = TRUE
     /\ TopSettles(f2)
     /\ UNCHANGED <<boot, forumCount, threadCount, postCount, db, fnIn, fnOut>>

\* Variant: the cursor lives in one place shared by all page objects.
ThreadLoadedShared(t, n, last) ==
  LET r  == br[t]
      p  == r.page
      items == [i \in 1..n |-> "inflight"]
      r1 == [r EXCEPT !.docPage = p, !.docLast = last,
                      !.seen = SeeLast(@, last),
                      !.posts = [i \in 1..n |-> XFPost(PostOptions(r, p, i))],
                      !.page = NextCursor(p, last),
                      !.items = items, !.order = <<>>, !.st = "items"]
      r2 == IF MapResolved(items) THEN ArchiveNextPage(r1) ELSE r1
  IN /\ r.st = "loading"
     /\ DocAllowed(p, last)
     /\ postCount' = postCount + n
     /\ db' = [db EXCEPT ![<<PostPersistTable, "XFPost">>] = @ + n]
     /\ br' = [br EXCEPT ![t] = r2, ![Forum].page = r2.page]
     /\ UNCHANGED <<boot, top, topReason, reported, forumCount,
                    threadCount, ioFail, fnIn, fnOut>>

\* ---- thread page loaded: _onLoad -> XFThread#scrape ----------------------
\* n messages, `last` the PageNav indicator; every XFPost#archive issues one
\* statement.  With no message the map is fulfilled at once.
ThreadLoaded(t, n, last) ==
  LET r  == br[t]
      p  == r.page
      items == [i \in 1..n |-> "inflight"]
      r1 == [r EXCEPT !.docPage = p, !.docLast = last,
                      !.seen = SeeLast(@, last),
                      !.posts = [i \in 1..n |-> XFPost(PostOptions(r, p, i))],
                      !.page = NextCursor(p, last),
                      !.items = items, !.order = <<>>, !.st = "items"]
      r2 == IF MapResolved(items) THEN ArchiveNextPage(r1) ELSE r1
  IN /\ r.st = "loading"
     /\ DocAllowed(p, last)
     /\ postCount' = postCount + n
     /\ db' = [db EXCEPT ![<<PostPersistTable, "XFPost">>] = @ + n]
     /\ br' = [br EXCEPT ![t] = r2]
     /\ UNCHANGED <<boot, top, topReason, reported, forumCount,
                    threadCount, ioFail, fnIn, fnOut>>

\* Variant: messages are archived one by one while they are extracted, so
\* one post is already handed over when a later message fails.
ThreadParseFailedPartial(t) ==
  /\ br[t].st = "loading"
  /\ br' = [br EXCEPT ![t].st = "failed", ![t].reason = "ParseError"]
  /\ ioFail' = TRUE
  /\ postCount' = postCount + 1
  /\ db' = [db EXCEPT ![<<PostPersistTable, "XFPost">>] = @ + 1]
  /\ UNCHANGED <<boot, top, topReason, reported, forumCount, threadCount,
                 fnIn, fnOut>>

\* A message whose time string does not match: the first .map throws inside
\* scrape, before any XFPost exists and before this.page is assigned.
ThreadParseFailed(t) ==
  /\ br[t].st = "loading"
  /\ br' = [br EXCEPT ![t].st = "failed", ![t].reason = "ParseError"]
  /\ ioFail' = TRUE
  /\ UNCHANGED <<boot, top, topReason, reported, forumCount, threadCount,
                 postCount, db, fnIn, fnOut>>

\* needle.getAsync rejects for a thread page.
ThreadLoadFailed(t) ==
  /\ br[t].st = "loading"
  /\ br' = [br EXCEPT ![t].st = "failed", ![t].reason = "FetchError"]
  /\ ioFail' = TRUE
  /\ UNCHANGED <<boot, top, topReason, reported, forumCount, threadCount,
                 postCount, db, fnIn, fnOut>>

\* ---- a post's statement completes (db.runAsync settles) ------------------
StoreDone(t, i, ok) ==
  LET r  == br[t]
      r1 == [r EXCEPT !.items[i] = IF ok THEN "ok" ELSE "fail",
                      !.order = Append(@, i)]
      r2 == IF r.st # "items" THEN r1      \* the map has settled already
            ELSE IF ~ok
              THEN [r1 EXCEPT !.st = "failed", !.reason = "PersistError"]
            ELSE IF MapResolved(r1.items) THEN ArchiveNextPage(r1)
            ELSE r1
  IN /\ i \in DOMAIN r.items
     /\ r.items[i] = "inflight"
     /\ br' = [br EXCEPT ![t] = r2]
     /\ ioFail' = (ioFail \/ ~ok)
     /\ UNCHANGED <<boot, top, topReason, reported, forumCount, threadCount,
                    postCount, db, fnIn, fnOut>>

\* ---- conversions of XFThread#scrape, checked on their own ----------------
\* Strings are sequences of one-character strings.
DigitChars == {"0", "1", "2", "3", "4", "5", "6", "7", "8", "9"}
WordChars  == DigitChars \cup {"A", "M", "P", "a", "m", "p", "x", "_"}
SpaceChars == {" "}

DigitVal(c) ==
  CASE c = "0" -> 0 [] c = "1" -> 1 [] c = "2" -> 2 [] c = "3" -> 3
    [] c = "4" -> 4 [] c = "5" -> 5 [] c = "6" -> 6 [] c = "7" -> 7
    [] c = "8" -> 8 [] c = "9" -> 9

DigitChar(d) == CHOOSE c \in DigitChars : DigitVal(c) = d

Lower(c) ==
  CASE c = "A" -> "a" [] c = "M" -> "m" [] c = "P" -> "p" [] OTHER -> c

\* Number.prototype.toString for a non-negative integer.
RECURSIVE NumToChars(_)
NumToChars(n) ==
  IF n < 10 THEN <<DigitChar(n)>>
  ELSE Append(NumToChars(n \div 10), DigitChar(n % 10))

\* Index of the last character of the longest run of characters of `set`
\* that starts at i; i - 1 when s[i] is not in `set`.
RECURSIVE RunEnd(_, _, _)
RunEnd(s, i, set) ==
  IF i <= Len(s) /\ s[i] \in set THEN RunEnd(s, i + 1, set) ELSE i - 1

RECURSIVE DigitsValue(_)
DigitsValue(ds) ==
  IF ds = <<>> THEN 0
  ELSE 10 * DigitsValue(SubSeq(ds, 1, Len(ds) - 1)) + DigitVal(ds[Len(ds)])

\* parseInt(x, 10): leading white space is skipped, an optional sign is
\* read, then the longest run of digits; NaN when that run is empty.
ParseInt(s) ==
  LET a    == RunEnd(s, 1, SpaceChars) + 1
      neg  == a <= Len(s) /\ s[a] = "-"
      b    == IF a <= Len(s) /\ s[a] \in {"-", "+"} THEN a + 1 ELSE a
      e    == RunEnd(s, b, DigitChars)
  IN IF e < b THEN [nan |-> TRUE, val |-> 0]
     ELSE [nan |-> FALSE,
           val |-> (IF neg THEN -1 ELSE 1) * DigitsValue(SubSeq(s, b, e))]

\* line 280: parseInt(likes || 0, 10); the empty string is falsy, and then
\* the number 0 is what parseInt converts.
ParseLikes(text) ==
  IF text = <<>> THEN ParseInt(NumToChars(0)) ELSE ParseInt(text)

\* line 269: rawDate[1].match(/(\d+):(\d+) (\w+)/), the leftmost match with
\* greedy groups; ok = FALSE stands for null.
MatchTime(s) ==
  LET At(i) ==
        LET e1 == RunEnd(s, i, DigitChars)
            e2 == RunEnd(s, e1 + 2, DigitChars)
            e3 == RunEnd(s, e2 + 2, WordChars)
        IN [ok |-> /\ e1 >= i
                   /\ e1 + 1 <= Len(s) /\ s[e1 + 1] = ":"
                   /\ e2 >= e1 + 2
                   /\ e2 + 1 <= Len(s) /\ s[e2 + 1] = " "
                   /\ e3 >= e2 + 2,
            g1 |-> SubSeq(s, i, e1),
            g2 |-> SubSeq(s, e1 + 2, e2),
            g3 |-> SubSeq(s, e2 + 2, e3)]
      starts == {i \in 1..Len(s) : At(i).ok}
  IN IF starts = {} THEN [ok |-> FALSE, g1 |-> <<>>, g2 |-> <<>>, g3 |-> <<>>]
     ELSE At(CHOOSE i \in starts : \A j \in starts : i <= j)

\* /am/i.test(str)
TestAm(str) ==
  \E i \in 1..(Len(str) - 1) : Lower(str[i]) = "a" /\ Lower(str[i + 1]) = "m"

\* Variant: the usual 12-hour clock, where 12 stands for 0.
To24Standard(h, mer) == (h % 12) + (IF TestAm(mer) THEN 0 ELSE 12)

\* line 271: the argument of setHours.
To24(h, mer) == h + (IF TestAm(mer) THEN 0 ELSE 12)

\* Date.prototype.setHours / setMinutes on a local date: the value is
\* carried into the next field (MakeTime, MakeDay).
SetHours(d, h)   == [d EXCEPT !.day = @ + (h \div 24), !.hour = h % 24]
SetMinutes(d, m) ==
  LET total == d.hour * 60 + m
  IN [d EXCEPT !.day = @ + (total \div 1440),
               !.hour = (total \div 60) % 24, !.min = total % 60]

\* lines 268-272 for a date part that parses to local midnight of day 0.
ConvertDate(timePart) ==
  LET time == MatchTime(timePart)
      d0   == [day |-> 0, hour |-> 0, min |-> 0]
      d1   == SetHours(d0, To24(ParseInt(time.g1).val, time.g3))
  IN SetMinutes(d1, ParseInt(time.g2).val)

\* The time string "H:MM AM" of the markup.
TimeString(h, m, mer) ==
  NumToChars(h) \o <<":">> \o
  (IF m < 10 THEN <<"0">> ELSE <<>>) \o NumToChars(m) \o <<" ">> \o mer

Meridiems == {<<"A", "M">>, <<"P", "M">>, <<"a", "m">>, <<"p", "m">>}

TimeInputs ==
  [kind : {"time"}, h : 1..12, m : 0..59, mer : Meridiems]

\* Text of the rating element: "" when the element is absent.
LikesAlphabet == {"0", "7", "x", "-"}
LikesTexts ==
  {<<>>} \cup {<<c>> : c \in LikesAlphabet}
         \cup {<<c, d>> : c \in LikesAlphabet, d \in LikesAlphabet}

LikesInputs == [kind : {"likes"}, text : LikesTexts]

InitFn ==
  /\ Boot(1)
  /\ fnIn \in TimeInputs \cup LikesInputs
  /\ fnOut = [kind |-> "none"]

mainVars == <<boot, top, topReason, reported, forumCount, threadCount,
              postCount, br, db, ioFail>>

ConvertTime ==
  /\ fnIn.kind = "time"
  /\ fnOut.kind = "none"
  /\ MatchTime(TimeString(fnIn.h, fnIn.m, fnIn.mer)).ok
  /\ fnOut' = [kind |-> "time",
               date |-> ConvertDate(TimeString(fnIn.h, fnIn.m, fnIn.mer))]
  /\ UNCHANGED <<mainVars, fnIn>>

ConvertLikes ==
  /\ fnIn.kind = "likes"
  /\ fnOut.kind = "none"
  /\ fnOut' = [kind |-> "likes", likes |-> ParseLikes(fnIn.text)]
  /\ UNCHANGED <<mainVars, fnIn>>

NextFn == ConvertTime \/ ConvertLikes

SpecFn == InitFn /\ [][NextFn]_vars

Next ==
  \/ TablesCreated
  \/ TablesFailed
  \/ \E n \in 0..MaxThreads, last \in LastVals : ForumLoaded(n, last)
  \/ ForumLoadFailed
  \/ \E t \in ThreadIds, n \in 0..MaxPosts, last \in LastVals :
       ThreadLoaded(t, n, last)
  \/ \E t \in ThreadIds : ThreadParseFailed(t)
  \/ \E t \in ThreadIds : ThreadLoadFailed(t)
  \/ \E t \in ThreadIds, i \in 1..MaxPosts, ok \in BOOLEAN : StoreDone(t, i, ok)

Spec == Init /\ [][Next]_vars

SpecStart == InitStart /\ [][Next]_vars

\* ==== properties ==========================================================

\* No request and no statement is outstanding.
Quiescent ==
  /\ boot # "pending"
  /\ \A b \in Branches :
       /\ br[b].st # "loading"
       /\ \A i \in DOMAIN br[b].items : br[b].items[i] # "inflight"

\* A page of branch b has been extracted.
Extracted(b) == br[b].docPage # Null

\* Threads the forum scrape has constructed.
Discovered == {t \in ThreadIds : br[t].st # "none"}

SaveThreadCalls == db[<<"threads", "XFThread">>]
SavePostCalls   == db[<<"posts", "XFPost">>]

IsPermutation(order, items) ==
  /\ Len(order) = Len(items)
  /\ {order[k] : k \in DOMAIN order} = DOMAIN items

\* C1: when nothing reports a failure and the run has come to rest, the
\* top-level archive has completed successfully, the forum has been walked to
\* its last page and every thread listed on its pages has been traversed to
\* that thread's last page.
ClaimC1 ==
  (Quiescent /\ ~ioFail) =>
     /\ top = "resolved"
     /\ br[Forum].st = "done"
     /\ \A t \in Discovered : br[t].st = "done"

C3_FetchesConsecutive ==
  \A b \in Branches :
    \A k \in DOMAIN br[b].fetched : br[b].fetched[k] = k

\* The forum and one of its threads have each fetched a second page.
C3_Witness ==
  /\ Len(br[Forum].fetched) >= 2
  /\ \E t \in ThreadIds : Len(br[t].fetched) >= 2 /\ br[t].page = Null

\* C4: a branch requests its next page only when every item action of the
\* current page has completed successfully; the forum requests a further
\* page only when every thread discovered on the earlier pages is Done; a
\* branch with a failed item action never fetches again.
C4_AdvanceAfterItems ==
  /\ [](/\ \A b \in Branches :
             (br[b].st = "loading" /\ Len(br[b].fetched) > 1) =>
                \A i \in DOMAIN br[b].items : br[b].items[i] = "ok"
        /\ \A t \in Discovered :
             Len(br[Forum].fetched) > t[1] => br[t].st = "done")
  /\ [][\A b \in Branches :
          (\E i \in DOMAIN br[b].items : br[b].items[i] \in {"fail", "threw"})
             => br'[b].fetched = br[b].fetched]_vars

\* A thread has requested page 2 after both statements of page 1 completed.
C4_Witness ==
  \E t \in ThreadIds :
    /\ br[t].st = "loading" /\ br[t].fetched = <<1, 2>>
    /\ Len(br[t].items) = 2
    /\ \A i \in DOMAIN br[t].items : br[t].items[i] = "ok"

\* C5: a thread whose traversal succeeded has been saved exactly once.
ClaimC5 ==
  \A t \in ThreadIds :
    br[t].st = "done" =>
      SaveThreadCalls = Cardinality({u \in ThreadIds : br[u].st = "done"})

\* C6: every message extracted leads to one insert into posts and to none
\* into threads.
ClaimC6 ==
  /\ SavePostCalls = postCount
  /\ db[<<"threads", "XFPost">>] = 0

\* C7: a forum page with two thread entries and no indicator, thread pages
\* without indicator and no failure: one forum fetch, one fetch per thread,
\* two saveThread calls and one savePost call per message found.
ClaimC7 ==
  ( /\ Quiescent /\ ~ioFail
    /\ br[Forum].docPage = 1 /\ Len(br[Forum].items) = 2
    /\ br[Forum].docLast = Undefined
    /\ \A t \in Discovered : br[t].docLast = Undefined )
  =>
  ( /\ Len(br[Forum].fetched) = 1
    /\ \A i \in 1..2 : Len(br[<<1, i>>].fetched) = 1
    /\ SaveThreadCalls = 2
    /\ SavePostCalls = postCount )

\* C8: a branch whose fetch failed has failed, and that fetch error is the
\* failure the top-level invocation ends with.
ClaimC8 ==
  \A b \in Branches :
    br[b].reason = "FetchError" =>
      /\ br[b].st = "failed"
      /\ top = "rejected"
      /\ topReason = "FetchError"

C10_OrderIndependent ==
  \A b \in Branches :
    (Extracted(b) /\ br[b].st \in {"loading", "done"}) =>
       /\ IsPermutation(br[b].order,
                        [i \in DOMAIN br[b].items |-> "ok"])
       /\ \A i \in DOMAIN br[b].items : br[b].items[i] = "ok"
       /\ IF br[b].docLast = Undefined \/ br[b].docLast = br[b].docPage
            THEN br[b].page = Null /\ br[b].st = "done"
            ELSE /\ br[b].page = br[b].docPage + 1
                 /\ br[b].st = "loading"
                 /\ br[b].fetched[Len(br[b].fetched)] = br[b].page

\* Two statements completed in reverse order and the thread advanced.
C10_Witness ==
  \E t \in ThreadIds :
    /\ br[t].order = <<2, 1>>
    /\ br[t].st = "loading"
    /\ br[t].fetched = <<1, 2>>

\* The same page completed in index order ends the cycle the same way.
C10_WitnessForward ==
  \E t \in ThreadIds :
    /\ br[t].order = <<1, 2>>
    /\ br[t].st = "loading"
    /\ br[t].fetched = <<1, 2>>

\* relativePath of a branch
PathOf(b) == IF b = Forum THEN ForumPath ELSE ThreadPath(b)

AllItemsOk(b) == \A i \in DOMAIN br[b].items : br[b].items[i] = "ok"

C12_ReportIffSuccess ==
  /\ reported <=> top = "resolved"
  /\ top = "rejected" => ~reported

\* The forum was walked over two pages and the report printed.
C12_Witness ==
  /\ reported
  /\ br[Forum].st = "done"
  /\ Len(br[Forum].fetched) = 2

\* C13 as stated: a step of a started thread changes no other page object
\* and no process-wide state.
ClaimC13 ==
  [][\A t \in ThreadIds :
       (br[t].st # "none" /\ br'[t] # br[t]) =>
          /\ \A b \in Branches \ {t} : br'[b] = br[b]
          /\ <<forumCount, threadCount, postCount>>'
               = <<forumCount, threadCount, postCount>>
          /\ <<top, topReason, reported>>' = <<top, topReason, reported>>]_vars

\* C13 amended: a step of a started thread changes no other page object,
\* neither the forum's nor a sibling's, and of the process-wide state only
\* the post counter; the forum counter never changes.
C13_OwnStateOnly ==
  [][/\ \A t \in ThreadIds :
          (br[t].st # "none" /\ br'[t] # br[t]) =>
             /\ \A b \in Branches \ {t} : br'[b] = br[b]
             /\ <<forumCount, threadCount>>' = <<forumCount, threadCount>>
             /\ <<top, topReason, reported>>' = <<top, topReason, reported>>
     /\ forumCount' = forumCount]_vars

\* A thread has extracted a page with posts while its sibling exists.
C13_Witness ==
  \E t \in ThreadIds, u \in ThreadIds :
    /\ t # u
    /\ br[t].docPage = 2 /\ Len(br[t].posts) > 0 /\ postCount > 0
    /\ br[u].st = "new"
    /\ br[Forum].docPage # Null

\* C14 as stated: hour H for AM, H + 12 for PM, minute MM.
ClaimC14 ==
  fnOut.kind = "time" =>
    /\ fnOut.date.min = fnIn.m
    /\ fnOut.date.hour =
         (IF fnIn.mer \in {<<"A", "M">>, <<"a", "m">>}
            THEN fnIn.h ELSE fnIn.h + 12)

\* C14 amended: minute MM; hour H for AM (12 AM gives 12); for PM hour
\* H + 12 when H < 12, and for 12 PM hour 0 of the following day.
C14_HourMinute ==
  fnOut.kind = "time" =>
    /\ fnOut.date.min = fnIn.m
    /\ IF fnIn.mer \in {<<"A", "M">>, <<"a", "m">>}
         THEN fnOut.date.hour = fnIn.h /\ fnOut.date.day = 0
         ELSE IF fnIn.h < 12
           THEN fnOut.date.hour = fnIn.h + 12 /\ fnOut.date.day = 0
           ELSE fnOut.date.hour = 0 /\ fnOut.date.day = 1

\* "2:30 PM" was converted to 14:30.
C14_Witness ==
  /\ fnIn = [kind |-> "time", h |-> 2, m |-> 30, mer |-> <<"P", "M">>]
  /\ fnOut.kind = "time"
  /\ fnOut.date = [day |-> 0, hour |-> 14, min |-> 30]

\* C15: the k-th URL a branch requests is baseUrl + relativePath for page 1
\* and baseUrl + relativePath + "page-" + N for page N > 1.
C15_UrlOfPage ==
  \A b \in Branches :
    /\ Len(br[b].urls) = Len(br[b].fetched)
    /\ \A k \in DOMAIN br[b].urls :
         br[b].urls[k] =
           (IF br[b].fetched[k] = 1
              THEN BaseUrl \o PathOf(b)
              ELSE BaseUrl \o PathOf(b) \o "page-"
                     \o ToString(br[b].fetched[k]))

\* The forum and a thread have both requested page 1 and page 2.
C15_Witness ==
  /\ Len(br[Forum].urls) >= 2
  /\ \E t \in ThreadIds : br[t].fetched = <<1, 2>>

\* C16: the number of every post object, and the number bound to its
\* statement, is the integer of its post-number label.
ClaimC16 ==
  \A t \in ThreadIds :
    \A i \in DOMAIN br[t].posts :
      /\ Get(br[t].posts[i], "number") = PostNumber(br[t].docPage, i)
      /\ Get(PersistParams(br[t].posts[i]), "number")
           = PostNumber(br[t].docPage, i)

\* C17: likes is a non-negative integer: the number written when the text is
\* all digits, 0 when the text is empty or does not start with a number.
ClaimC17 ==
  fnOut.kind = "likes" =>
    /\ ~fnOut.likes.nan
    /\ fnOut.likes.val >= 0
    /\ (fnIn.text # <<>> /\ \A k \in DOMAIN fnIn.text :
                               fnIn.text[k] \in DigitChars)
         => fnOut.likes.val = DigitsValue(fnIn.text)
    /\ (fnIn.text = <<>> \/ fnIn.text[1] \notin DigitChars)
         => fnOut.likes.val = 0

\* C18: a branch whose pages all report the same last page L never fetches
\* a page above L and, when nothing failed and the run is at rest, is Done.
ClaimC18 ==
  \A b \in Branches :
    (br[b].seen.n = 1 /\ br[b].seen.v # Undefined) =>
       /\ \A k \in DOMAIN br[b].fetched : br[b].fetched[k] <= br[b].seen.v
       /\ (Quiescent /\ ~ioFail) => br[b].st = "done"

\* C19: the step in which a thread page fails to parse hands nothing to the
\* store, constructs no post and leaves the cursor as it was; the thread
\* does nothing afterwards.
C19_ParseFailureAtomic ==
  [][\A t \in ThreadIds :
       /\ (br'[t].reason = "ParseError" /\ br[t].reason # "ParseError") =>
             /\ db' = db
             /\ postCount' = postCount
             /\ br'[t].page = br[t].page
             /\ br'[t].page = br[t].fetched[Len(br[t].fetched)]
             /\ br'[t].fetched = br[t].fetched
             /\ br'[t].items = br[t].items
       /\ br[t].reason = "ParseError" => br'[t] = br[t] /\ db' = db]_vars

\* Page 2 of a thread failed to parse after page 1 had stored two posts.
C19_Witness ==
  \E t \in ThreadIds :
    /\ br[t].reason = "ParseError"
    /\ br[t].page = 2
    /\ db[<<PostPersistTable, "XFPost">>] = 2

\* C20: when the report is printed, its thread count is the number of
\* saveThread calls and its post count the number of savePost calls.
C20_ReportMatchesStore ==
  reported =>
    /\ threadCount = SaveThreadCalls
    /\ postCount = SavePostCalls

\* The report was printed after a walk over all forum pages.
C20_Witness ==
  /\ reported
  /\ Len(br[Forum].fetched) = MaxPage

====
